---- MODULE Spec2Model ----
(***************************************************************************)
(* A model of the sliding-tile puzzle solver: the Matrix arrangement       *)
(* (src/matrix.py), step reconstruction (src/algorithm/__init__.py) and    *)
(* the breadth-first, depth-limited depth-first and genetic solvers.       *)
(*                                                                         *)
(* Python objects live in `heap`, a sequence of Matrix records; an object  *)
(* reference is its index and None is 0.                                   *)
(***************************************************************************)
EXTENDS Integers, Sequences, FiniteSets, TLC

VARIABLES heap, pc, call, step, alg, initial, final, depth_limit,
          matrix_queue, stack, population, round, solution

vars == <<heap, pc, call, step, alg, initial, final, depth_limit,
          matrix_queue, stack, population, round, solution>>

(***************************************************************************)
(* src/matrix.py: constants, boundary_check, Direction                     *)
(***************************************************************************)
MATRIX_SIZE == 3

SPACE_SYMBOL == "#"

SPACE_VALUE == -1

None == 0

Index == 0 .. (MATRIX_SIZE - 1)

boundary_check(candidates) ==
    \A k \in 1 .. Len(candidates) :
        0 <= candidates[k] /\ candidates[k] < MATRIX_SIZE

Direction == {"LEFT", "UP", "RIGHT", "DOWN"}

DirectionValue(direction) ==
    CASE direction = "LEFT"  -> <<0, -1>>
      [] direction = "UP"    -> <<-1, 0>>
      [] direction = "RIGHT" -> <<0, 1>>
      [] direction = "DOWN"  -> <<1, 0>>

\* DIRECTIONS as a bug would have it: the list written the other way round
DIRECTIONS_reversed == <<"DOWN", "RIGHT", "UP", "LEFT">>

DIRECTIONS == <<"LEFT", "UP", "RIGHT", "DOWN">>

(***************************************************************************)
(* src/matrix.py: Matrix.  A Matrix record holds _arrangement (rows and    *)
(* columns indexed from 0), _space_position (<<>> for None), parent (a     *)
(* heap index, None for the root) and last_direction ("None" or a          *)
(* Direction).                                                             *)
(***************************************************************************)
EmptyMatrix ==
    [arrangement    |-> [i \in Index |-> [j \in Index |-> SPACE_VALUE]],
     space_position |-> <<>>,
     parent         |-> None,
     last_direction |-> "None"]

\* Matrix.place on one record; the fatal branch (an index out of the grid)
\* leaves the program, shown as the string "fatal".
place(mat, row, column, number) ==
    IF ~boundary_check(<<row, column>>) THEN "fatal"
    ELSE [mat EXCEPT
            !.space_position = IF number = SPACE_VALUE THEN <<row, column>> ELSE @,
            !.arrangement[row][column] = number]

fetch(mat, row, column) ==
    IF ~boundary_check(<<row, column>>) THEN "fatal"
    ELSE mat.arrangement[row][column]

\* Matrix.__eq__: the arrangements alone are compared.
MatrixEq(mat, other) == mat.arrangement = other.arrangement

\* clone as a bug would have it: the same object handed back, no copy made
clone_alias(h, self) == [heap |-> h, ret |-> self]

\* clone as a bug would have it: a copy of the whole object, the parent
\* and the last direction included
clone_whole(h, self) == [heap |-> Append(h, h[self]), ret |-> Len(h) + 1]

\* Matrix.clone: a new object with a copy of the arrangement and of the
\* space position; parent and last_direction are those of Matrix().
clone(h, self) ==
    [heap |-> Append(h, [EmptyMatrix EXCEPT
                            !.arrangement = h[self].arrangement,
                            !.space_position = h[self].space_position]),
     ret  |-> Len(h) + 1]

\* exchange as a bug would have it: the cells are written past place, so
\* the cached space position is left as it was
exchange_stale(h, self, x1, y1, x2, y2) ==
    IF ~boundary_check(<<x1, x2, y1, y2>>) THEN h
    ELSE [h EXCEPT ![self].arrangement[x1][y1] = h[self].arrangement[x2][y2],
                   ![self].arrangement[x2][y2] = h[self].arrangement[x1][y1]]

\* Matrix.exchange, in place on object self.
exchange(h, self, x1, y1, x2, y2) ==
    IF ~boundary_check(<<x1, x2, y1, y2>>) THEN h
    ELSE LET temp == fetch(h[self], x1, y1)
             m1   == place(h[self], x1, y1, fetch(h[self], x2, y2))
             m2   == place(m1, x2, y2, temp)
         IN [h EXCEPT ![self] = m2]

\* Matrix.parents: the heap indices of all ancestors, nearest first.
RECURSIVE parents(_, _)
parents(h, self) ==
    IF h[self].parent = None THEN <<>>
    ELSE <<h[self].parent>> \o parents(h, h[self].parent)

\* `candidate in parents`: list membership uses Matrix.__eq__.
InMatrices(h, candidate, matrices) ==
    \E k \in 1 .. Len(matrices) : MatrixEq(h[candidate], h[matrices[k]])

\* Matrix.play_only.
play_only(h, self, direction) ==
    LET space_x == h[self].space_position[1]
        space_y == h[self].space_position[2]
        x == space_x + DirectionValue(direction)[1]
        y == space_y + DirectionValue(direction)[2]
    IN IF ~boundary_check(<<x, y>>) THEN [heap |-> h, ret |-> None]
       ELSE LET c   == clone(h, self)
                mat == c.ret
                h1  == exchange(c.heap, mat, space_x, space_y, x, y)
            IN [heap |-> [h1 EXCEPT ![mat].parent = self,
                                    ![mat].last_direction = direction],
                ret  |-> mat]

\* Matrix.play: the loop over Direction, from the k-th direction on, with the
\* new matrices collected so far.  forbidden_directions is a set; None acts
\* as the empty list.
RECURSIVE play_from(_, _, _, _, _)
play_from(h, self, forbidden_directions, k, new_matrices) ==
    IF k > Len(DIRECTIONS) THEN [heap |-> h, ret |-> new_matrices]
    ELSE LET direction == DIRECTIONS[k]
             space_x == h[self].space_position[1]
             space_y == h[self].space_position[2]
             x == space_x + DirectionValue(direction)[1]
             y == space_y + DirectionValue(direction)[2]
         IN IF direction \in forbidden_directions
            THEN play_from(h, self, forbidden_directions, k + 1, new_matrices)
            ELSE IF ~boundary_check(<<x, y>>)
            THEN play_from(h, self, forbidden_directions, k + 1, new_matrices)
            ELSE LET c   == clone(h, self)
                     mat == c.ret
                     h1  == exchange(c.heap, mat, space_x, space_y, x, y)
                     h2  == [h1 EXCEPT ![mat].parent = self,
                                       ![mat].last_direction = direction]
                 IN play_from(h2, self, forbidden_directions, k + 1,
                              Append(new_matrices, mat))

\* play as a bug would have it: the forbidden directions are not skipped
play_ignoring_forbidden(h, self, forbidden_directions) ==
    play_from(h, self, {}, 1, <<>>)

play(h, self, forbidden_directions) ==
    play_from(h, self, forbidden_directions, 1, <<>>)

(***************************************************************************)
(* src/matrix.py: Matrix.__init__(data).  data is a list of lines, a line  *)
(* a sequence of one-character strings.  The walk keeps the matrix under   *)
(* construction, `spaced`, `appeared` and how the constructor ended:       *)
(* "ok", "fatal" (util.fatal was called), "ValueError" (int(char) of a     *)
(* non-digit) or "KeyError" (appeared[number] of a number outside 1..8).   *)
(***************************************************************************)
Digits == <<"0", "1", "2", "3", "4", "5", "6", "7", "8", "9">>

IsDigit(char) == \E k \in 1 .. Len(Digits) : Digits[k] = char

int(char) == (CHOOSE k \in 1 .. Len(Digits) : Digits[k] = char) - 1

RECURSIVE strip(_)
strip(line) ==
    IF line = <<>> THEN line
    ELSE IF Head(line) = " " THEN strip(Tail(line))
    ELSE IF line[Len(line)] = " " THEN strip(SubSeq(line, 1, Len(line) - 1))
    ELSE line

RECURSIVE InitChars(_, _, _, _)
InitChars(st, line, line_index, char_index) ==
    IF st.status # "ok" \/ char_index >= Len(line) THEN st
    ELSE LET char == line[char_index + 1]
         IN IF char = SPACE_SYMBOL
            THEN IF st.spaced THEN [st EXCEPT !.status = "fatal"]
                 ELSE InitChars([st EXCEPT
                                   !.mat = place(@, line_index, char_index, SPACE_VALUE),
                                   !.spaced = TRUE],
                                line, line_index, char_index + 1)
            ELSE IF ~IsDigit(char) THEN [st EXCEPT !.status = "ValueError"]
            ELSE IF int(char) \notin 1 .. (MATRIX_SIZE * MATRIX_SIZE - 1)
                 THEN [st EXCEPT !.status = "KeyError"]
            ELSE IF int(char) \in st.appeared THEN [st EXCEPT !.status = "fatal"]
            ELSE InitChars([st EXCEPT
                              !.mat = place(@, line_index, char_index, int(char)),
                              !.appeared = @ \cup {int(char)}],
                           line, line_index, char_index + 1)

RECURSIVE InitLines(_, _, _)
InitLines(st, data, line_index) ==
    IF st.status # "ok" \/ line_index >= Len(data) THEN st
    ELSE IF ~boundary_check(<<line_index>>) THEN [st EXCEPT !.status = "fatal"]
    ELSE LET line == strip(data[line_index + 1])
         IN IF Len(line) # MATRIX_SIZE THEN [st EXCEPT !.status = "fatal"]
            ELSE InitLines(InitChars(st, line, line_index, 0), data, line_index + 1)

MatrixInit(data) ==
    InitLines([mat |-> EmptyMatrix, spaced |-> FALSE, appeared |-> {}, status |-> "ok"],
              data, 0)

(***************************************************************************)
(* src/algorithm/__init__.py: differentiate, SolutionStep                  *)
(***************************************************************************)
differentiate(old, new) ==
    UNION { IF fetch(old, i, j) # fetch(new, i, j)
            THEN {fetch(old, i, j), fetch(new, i, j)}
            ELSE {} : i \in 0 .. 2, j \in 0 .. 2 }

\* SolutionStep as a bug would have it: the target is a clone of old
SolutionStep_target_old(h, old, new) ==
    LET difference == differentiate(h[old], h[new])
    IN IF Cardinality(difference) # 2 \/ SPACE_VALUE \notin difference
       THEN [heap |-> h, raised |-> TRUE, click |-> None, target |-> None]
       ELSE LET c == clone(h, old)
            IN [heap   |-> c.heap,
                raised |-> FALSE,
                click  |-> CHOOSE d \in difference : d # SPACE_VALUE,
                target |-> c.ret]

\* SolutionStep.__init__(old, new): raised is TRUE when InvalidStepException
\* is raised; otherwise click is the tile and target a clone of new.
SolutionStep(h, old, new) ==
    LET difference == differentiate(h[old], h[new])
    IN IF Cardinality(difference) # 2
       THEN [heap |-> h, raised |-> TRUE, click |-> None, target |-> None]
       ELSE IF SPACE_VALUE \notin difference
       THEN [heap |-> h, raised |-> TRUE, click |-> None, target |-> None]
       ELSE LET c == clone(h, new)
            IN [heap   |-> c.heap,
                raised |-> FALSE,
                click  |-> CHOOSE d \in difference : d # SPACE_VALUE,
                target |-> c.ret]

(***************************************************************************)
(* Inputs: the grid texts the program is given.                            *)
(***************************************************************************)
RootData ==
    { << <<"1", "2", "3">>, <<"4", "#", "5">>, <<"6", "7", "8">> >>,
      << <<"#", "1", "2">>, <<"3", "4", "5">>, <<"6", "7", "8">> >>,
      << <<"1", "#", "2">>, <<"3", "4", "5">>, <<"6", "7", "8">> >> }

CellOf(k) == <<k \div MATRIX_SIZE, k % MATRIX_SIZE>>

CharAt(data, k) == data[CellOf(k)[1] + 1][CellOf(k)[2] + 1]

\* data with the characters of cells p and q (numbered 0..8 by rows) exchanged
SwapText(data, p, q) ==
    [r \in 1 .. MATRIX_SIZE |->
        [c \in 1 .. MATRIX_SIZE |->
            LET k == (r - 1) * MATRIX_SIZE + (c - 1)
            IN IF k = p THEN CharAt(data, q)
               ELSE IF k = q THEN CharAt(data, p)
               ELSE data[r][c]]]

Variants(data) ==
    {data} \cup { SwapText(data, p, q) :
                    p \in 0 .. (MATRIX_SIZE * MATRIX_SIZE - 1),
                    q \in 0 .. (MATRIX_SIZE * MATRIX_SIZE - 1) }

(***************************************************************************)
(* SpecMove: the Matrix and SolutionStep operations called directly on     *)
(* two matrices built from text and on the matrices derived from them.     *)
(* call records the last call (its arguments, its return value and the     *)
(* heap before it), step the last SolutionStep built.                      *)
(***************************************************************************)
MaxObjects == 3

NoStep == [raised |-> FALSE, click |-> None, target |-> None]

\* what solve() gave: nothing yet, None, a list of steps, or an exception
Unset == [kind |-> "unset", steps |-> <<>>]

InitMove ==
    /\ \E d1 \in RootData : \E d2 \in Variants(d1) :
          heap = <<MatrixInit(d1).mat, MatrixInit(d2).mat>>
    /\ pc = "api"
    /\ call = [op |-> "init"]
    /\ step = NoStep
    /\ alg = "none" /\ initial = None /\ final = None /\ depth_limit = 0
    /\ matrix_queue = <<>> /\ stack = <<>>
    /\ population = <<>> /\ round = 0 /\ solution = Unset

PlayOnly(self, direction) ==
    /\ pc = "api"
    /\ Len(heap) < MaxObjects
    /\ LET r == play_only(heap, self, direction)
       IN /\ heap' = r.heap
          /\ call' = [op |-> "play_only", self |-> self, direction |-> direction,
                      ret |-> r.ret, pre |-> heap]
    /\ UNCHANGED <<pc, step, alg, initial, final, depth_limit, matrix_queue, stack,
                   population, round, solution>>

Play(self, forbidden_directions) ==
    /\ pc = "api"
    /\ LET r == play(heap, self, forbidden_directions)
       IN /\ heap' = r.heap
          /\ call' = [op |-> "play", self |-> self,
                      forbidden |-> forbidden_directions,
                      ret |-> r.ret, pre |-> heap]
    /\ pc' = "observed"
    /\ UNCHANGED <<step, alg, initial, final, depth_limit, matrix_queue, stack,
                   population, round, solution>>

NewSolutionStep(old, new) ==
    /\ pc = "api"
    /\ LET r == SolutionStep(heap, old, new)
       IN /\ heap' = r.heap
          /\ step' = [raised |-> r.raised, click |-> r.click, target |-> r.target]
          /\ call' = [op |-> "SolutionStep", old |-> old, new |-> new, pre |-> heap]
    /\ pc' = "observed"
    /\ UNCHANGED <<alg, initial, final, depth_limit, matrix_queue, stack,
                   population, round, solution>>

NextMove ==
    \/ \E self \in 1 .. Len(heap) : \E direction \in Direction :
          PlayOnly(self, direction)
    \/ \E self \in 1 .. Len(heap) : \E forbidden_directions \in SUBSET Direction :
          Play(self, forbidden_directions)
    \/ \E old \in 1 .. Len(heap) : \E new \in 1 .. Len(heap) :
          NewSolutionStep(old, new)

SpecMove == InitMove /\ [][NextMove]_vars

(***************************************************************************)
(* The legal-move relation, stated on arrangements without the program's   *)
(* operations: the yardstick of the properties below.                      *)
(***************************************************************************)
Cells == Index \X Index

InGrid(cell) ==
    /\ 0 <= cell[1] /\ cell[1] < MATRIX_SIZE
    /\ 0 <= cell[2] /\ cell[2] < MATRIX_SIZE

Destination(cell, direction) ==
    <<cell[1] + DirectionValue(direction)[1], cell[2] + DirectionValue(direction)[2]>>

BlankCells(arr) == { cell \in Cells : arr[cell[1]][cell[2]] = SPACE_VALUE }

Swapped(arr, p, q) ==
    [i \in Index |-> [j \in Index |->
        IF <<i, j>> = p THEN arr[q[1]][q[2]]
        ELSE IF <<i, j>> = q THEN arr[p[1]][p[2]]
        ELSE arr[i][j]]]

\* b is a by the blank moving one cell towards direction, inside the grid
MoveTowards(a, b, direction) ==
    \E p \in BlankCells(a) :
        /\ InGrid(Destination(p, direction))
        /\ b = Swapped(a, p, Destination(p, direction))

LegalMove(a, b) == \E direction \in Direction : MoveTowards(a, b, direction)

\* the heap before the last call, unchanged by it (objects are only added)
FrameKept ==
    /\ Len(heap) >= Len(call.pre)
    /\ \A i \in 1 .. Len(call.pre) : heap[i] = call.pre[i]

(***************************************************************************)
(* C7: SolutionStep(old, new) raises InvalidStepException for every pair   *)
(* of arrangements that is not related by exactly one legal move (equal    *)
(* arrangements, more than two cells differing, the blank exchanged with a *)
(* tile that is not next to it).                                           *)
(***************************************************************************)
C7_InvalidPairRaises ==
    (call.op = "SolutionStep"
        /\ ~LegalMove(call.pre[call.old].arrangement, call.pre[call.new].arrangement))
    => step.raised

(***************************************************************************)
(* C8: when B = A.play_only(d) is not None, SolutionStep(A, B) succeeds,   *)
(* its click is the one tile that changed places with the blank and its    *)
(* target holds B's arrangement.                                           *)
(***************************************************************************)
C8_StepOfPlayOnly ==
    (call.op = "SolutionStep" /\ heap[call.new].parent = call.old)
    => LET A == heap[call.old].arrangement
           B == heap[call.new].arrangement
       IN /\ ~step.raised
          /\ step.click # SPACE_VALUE
          /\ \E p \in BlankCells(A) : \E q \in BlankCells(B) :
                /\ A[q[1]][q[2]] = step.click
                /\ B[p[1]][p[2]] = step.click
          /\ step.target \notin {None, call.old, call.new}
          /\ heap[step.target].arrangement = B

C8_Witness ==
    /\ call.op = "SolutionStep"
    /\ heap[call.new].parent = call.old
    /\ ~step.raised
    /\ step.click = 5

(***************************************************************************)
(* C9: Matrix.play returns at most 4 states; each has its blank inside the *)
(* grid and is the result of one direction that is not forbidden and whose *)
(* destination is in the grid, no direction being used twice; with nothing *)
(* forbidden the count is the number of neighbours of the blank in the     *)
(* grid (2 at a corner, 3 on an edge, 4 in the centre).                    *)
(***************************************************************************)
Neighbours(arr) ==
    { direction \in Direction :
        \E p \in BlankCells(arr) : InGrid(Destination(p, direction)) }

C9_PlayResult ==
    (call.op = "play")
    => LET src == call.pre[call.self].arrangement
           ret == call.ret
       IN /\ Len(ret) <= 4
          /\ \A k \in 1 .. Len(ret) :
                /\ Cardinality(BlankCells(heap[ret[k]].arrangement)) = 1
                /\ heap[ret[k]].space_position \in BlankCells(heap[ret[k]].arrangement)
                /\ heap[ret[k]].last_direction \in Direction \ call.forbidden
                /\ MoveTowards(src, heap[ret[k]].arrangement, heap[ret[k]].last_direction)
                /\ \A l \in 1 .. Len(ret) :
                      heap[ret[k]].last_direction = heap[ret[l]].last_direction => k = l
          /\ Len(ret) = Cardinality(Neighbours(src) \ call.forbidden)
          /\ call.forbidden = {} =>
                \E p \in BlankCells(src) :
                    Len(ret) = (IF p[1] = 1 THEN 2 ELSE 1) + (IF p[2] = 1 THEN 2 ELSE 1)

C9_Witness ==
    /\ call.op = "play"
    /\ call.forbidden = {"UP"}
    /\ Len(call.ret) = 3

(***************************************************************************)
(* C10: play_only(state, d) returns None exactly when the destination of   *)
(* the blank is outside the grid; otherwise the new state's arrangement is *)
(* state's with the blank and the destination exchanged, its parent is     *)
(* state and its last_direction d.  In both cases state (arrangement,      *)
(* space position, parent, last_direction) is as before the call.          *)
(***************************************************************************)
C10_PlayOnlyResult ==
    (call.op = "play_only")
    => LET before == call.pre[call.self]
           p == before.space_position
           q == Destination(p, call.direction)
       IN /\ (call.ret = None) <=> ~InGrid(q)
          /\ call.ret # None =>
                /\ call.ret \notin 1 .. Len(call.pre)
                /\ heap[call.ret].arrangement = Swapped(before.arrangement, p, q)
                /\ heap[call.ret].space_position = q
                /\ heap[call.ret].parent = call.self
                /\ heap[call.ret].last_direction = call.direction
          /\ heap[call.self] = before
          /\ FrameKept

C10_Witness ==
    /\ call.op = "play_only"
    /\ call.ret # None
    /\ call.direction = "DOWN"
    /\ heap[call.ret].arrangement # heap[call.self].arrangement

C10_WitnessNone ==
    /\ call.op = "play_only"
    /\ call.ret = None

(***************************************************************************)
(* Inputs of the solvers: the initial text is one of RootData, the final   *)
(* text shows an arrangement at most MaxDist legal moves from it.          *)
(***************************************************************************)
MaxDist == 3

MaxDepthLimit == 3

Successors(arrs) ==
    { Swapped(a, p, Destination(p, direction)) :
        <<a, p, direction>> \in
            { t \in arrs \X Cells \X Direction :
                t[2] \in BlankCells(t[1]) /\ InGrid(Destination(t[2], t[3])) } }

\* the arrangements at most k legal moves from those of arrs
RECURSIVE Within(_, _)
Within(arrs, k) ==
    IF k = 0 THEN arrs ELSE Within(arrs \cup Successors(arrs), k - 1)

\* the least number of legal moves from a to b, or bound + 1 when it is
\* more than bound
RECURSIVE DistanceFrom(_, _, _, _)
DistanceFrom(arrs, b, k, bound) ==
    IF b \in arrs THEN k
    ELSE IF k >= bound THEN bound + 1
    ELSE DistanceFrom(arrs \cup Successors(arrs), b, k + 1, bound)

Distance(a, b, bound) == DistanceFrom({a}, b, 0, bound)

\* the text of an arrangement, as the user types it
TextOf(arr) ==
    [r \in 1 .. MATRIX_SIZE |->
        [c \in 1 .. MATRIX_SIZE |->
            IF arr[r - 1][c - 1] = SPACE_VALUE THEN SPACE_SYMBOL
            ELSE Digits[arr[r - 1][c - 1] + 1]]]

FinalData(d1) ==
    { TextOf(b) : b \in Within({MatrixInit(d1).mat.arrangement}, MaxDist) }

(***************************************************************************)
(* src/main.py and SolutionAlgorithm.__init__: the two matrices built from *)
(* text are objects 1 and 2; the solver keeps a clone of each.             *)
(***************************************************************************)
InitSolver(d1, d2) ==
    LET h0 == <<MatrixInit(d1).mat, MatrixInit(d2).mat>>
        c1 == clone(h0, 1)
        c2 == clone(c1.heap, 2)
    IN /\ heap = c2.heap
       /\ initial = c1.ret
       /\ final = c2.ret
       /\ call = [op |-> "init"]
       /\ step = NoStep
       /\ solution = Unset

\* the steps from the root to target: the walk up the parent links, each
\* step built by SolutionStep, then the list reversed (steps[::-1])
\* the walk as a bug would have it: it stops one link below the root
RECURSIVE walk_parents_short(_, _, _)
walk_parents_short(h, target, steps) ==
    IF h[target].parent = None \/ h[h[target].parent].parent = None
    THEN [heap |-> h, raised |-> FALSE, steps |-> steps]
    ELSE LET s == SolutionStep(h, h[target].parent, target)
         IN IF s.raised
            THEN [heap |-> s.heap, raised |-> TRUE, steps |-> steps]
            ELSE walk_parents_short(s.heap, h[target].parent,
                                    Append(steps, [click |-> s.click, target |-> s.target]))

RECURSIVE walk_parents(_, _, _)
walk_parents(h, target, steps) ==
    IF h[target].parent = None
    THEN [heap |-> h, raised |-> FALSE, steps |-> steps]
    ELSE LET s == SolutionStep(h, h[target].parent, target)
         IN IF s.raised
            THEN [heap |-> s.heap, raised |-> TRUE, steps |-> steps]
            ELSE walk_parents(s.heap, h[target].parent,
                              Append(steps, [click |-> s.click, target |-> s.target]))

\* steps[::-1] as a bug would have it: the list is left as it was built
Reverse_forgotten(seq) == seq

Reverse(seq) == [k \in 1 .. Len(seq) |-> seq[Len(seq) + 1 - k]]

reconstruct(h, target) ==
    LET w == walk_parents(h, target, <<>>)
    IN [heap |-> w.heap,
        solution |-> IF w.raised
                     THEN [kind |-> "InvalidStepException", steps |-> <<>>]
                     ELSE [kind |-> "steps", steps |-> Reverse(w.steps)]]

\* the test as a bug would have it: only the nearest ancestor is looked at
RECURSIVE not_in_parents_nearest(_, _, _)
not_in_parents_nearest(h, candidates, ancestors) ==
    IF candidates = <<>> THEN <<>>
    ELSE (IF ancestors # <<>> /\ InMatrices(h, Head(candidates), <<Head(ancestors)>>)
          THEN <<>>
          ELSE <<Head(candidates)>>)
         \o not_in_parents_nearest(h, Tail(candidates), ancestors)

\* the matrices of a list that are not equal to an ancestor of target
RECURSIVE not_in_parents(_, _, _)
not_in_parents(h, candidates, ancestors) ==
    IF candidates = <<>> THEN <<>>
    ELSE (IF InMatrices(h, Head(candidates), ancestors) THEN <<>>
          ELSE <<Head(candidates)>>)
         \o not_in_parents(h, Tail(candidates), ancestors)

(***************************************************************************)
(* src/algorithm/search/bfs.py: BreadthFirstSearch.solve                   *)
(***************************************************************************)
InitBFS ==
    /\ \E d1 \in RootData : \E d2 \in FinalData(d1) : InitSolver(d1, d2)
    /\ alg = "BFS" /\ pc = "start"
    /\ depth_limit = 0
    /\ matrix_queue = <<>> /\ stack = <<>> /\ population = <<>> /\ round = 0

\* matrix_queue = queue.Queue(); matrix_queue.put(self.initial)
BfsStart ==
    /\ alg = "BFS" /\ pc = "start"
    /\ matrix_queue' = <<initial>>
    /\ pc' = "bfs"
    /\ UNCHANGED <<heap, call, step, alg, initial, final, depth_limit, stack,
                   population, round, solution>>

\* One pass of the while loop; leaving the loop returns None.
BfsLoop ==
    /\ alg = "BFS" /\ pc = "bfs"
    /\ IF Len(matrix_queue) = 0
       THEN /\ solution' = [kind |-> "None", steps |-> <<>>]
            /\ pc' = "done"
            /\ UNCHANGED <<heap, matrix_queue>>
       ELSE LET target == Head(matrix_queue)
            IN IF MatrixEq(heap[target], heap[final])
               THEN LET r == reconstruct(heap, target)
                    IN /\ heap' = r.heap
                       /\ solution' = r.solution
                       /\ pc' = "done"
                       /\ matrix_queue' = Tail(matrix_queue)
               ELSE LET r == play(heap, target, {})
                    IN /\ heap' = r.heap
                       /\ matrix_queue' = Tail(matrix_queue) \o
                             not_in_parents(r.heap, r.ret, parents(r.heap, target))
                       /\ UNCHANGED <<solution, pc>>
    /\ UNCHANGED <<call, step, alg, initial, final, depth_limit, stack,
                   population, round>>

NextBFS == BfsStart \/ BfsLoop

SpecBFS == InitBFS /\ [][NextBFS]_vars

(***************************************************************************)
(* src/algorithm/search/dfs.py: DepthFirstSearch.  stack holds the calls   *)
(* of _dfs in progress, the innermost last: its depth and target, where it *)
(* stands ("entry": before the depth test; "loop": in the loop over the    *)
(* children), its children, the index i of the next child, and base, the   *)
(* size of the heap when it was called.  A call that returns None leaves   *)
(* nothing reachable of what it allocated: the heap is cut back to base.   *)
(***************************************************************************)
DepthLimits == 0 .. MaxDepthLimit

Frame(depth, target, base) ==
    [depth |-> depth, target |-> target, at |-> "entry",
     children |-> <<>>, i |-> 1, base |-> base]

\* the depth test as a bug would have it: one level too many is searched
over_limit_late(depth, limit) == depth > limit + 1

\* the depth test as a bug would have it: the last level is not searched
over_limit_early(depth, limit) == depth >= limit

\* if depth > self.depth_limit
over_limit(depth, limit) == depth > limit

InitDFS ==
    /\ \E d1 \in RootData : \E d2 \in FinalData(d1) : InitSolver(d1, d2)
    /\ alg = "DFS" /\ pc = "start"
    /\ depth_limit \in DepthLimits
    /\ matrix_queue = <<>> /\ stack = <<>> /\ population = <<>> /\ round = 0

\* solve: return self._dfs(1, self.initial)
DfsStart ==
    /\ alg = "DFS" /\ pc = "start"
    /\ stack' = <<Frame(1, initial, Len(heap))>>
    /\ pc' = "dfs"
    /\ UNCHANGED <<heap, call, step, alg, initial, final, depth_limit,
                   matrix_queue, population, round, solution>>

\* the innermost call returns None: its caller goes on with its next child,
\* and solve returns None when the outermost call does
dfs_return_none ==
    LET top == stack[Len(stack)]
    IN /\ stack' = SubSeq(stack, 1, Len(stack) - 1)
       /\ heap' = SubSeq(heap, 1, top.base)
       /\ IF Len(stack) = 1
          THEN /\ solution' = [kind |-> "None", steps |-> <<>>]
               /\ pc' = "done"
          ELSE UNCHANGED <<solution, pc>>

\* _dfs up to the loop: the depth test, parents and children
DfsEnter ==
    /\ alg = "DFS" /\ pc = "dfs"
    /\ stack[Len(stack)].at = "entry"
    /\ LET top == stack[Len(stack)]
       IN IF over_limit(top.depth, depth_limit)
          THEN dfs_return_none
          ELSE LET r == play(heap, top.target, {})
                   children == not_in_parents(r.heap, r.ret, parents(r.heap, top.target))
               IN /\ heap' = r.heap
                  /\ stack' = [stack EXCEPT ![Len(stack)].at = "loop",
                                            ![Len(stack)].children = children]
                  /\ UNCHANGED <<solution, pc>>
    /\ UNCHANGED <<call, step, alg, initial, final, depth_limit, matrix_queue,
                   population, round>>

\* one child of the loop: the solution when it equals final (every caller
\* hands it on at once), the recursive call otherwise
DfsChild ==
    /\ alg = "DFS" /\ pc = "dfs"
    /\ stack[Len(stack)].at = "loop"
    /\ stack[Len(stack)].i <= Len(stack[Len(stack)].children)
    /\ LET top == stack[Len(stack)]
           child == top.children[top.i]
       IN IF MatrixEq(heap[child], heap[final])
          THEN LET r == reconstruct(heap, child)
               IN /\ heap' = r.heap
                  /\ solution' = r.solution
                  /\ pc' = "done"
                  /\ stack' = <<>>
          ELSE /\ stack' = Append([stack EXCEPT ![Len(stack)].i = top.i + 1],
                                  Frame(top.depth + 1, child, Len(heap)))
               /\ UNCHANGED <<heap, solution, pc>>
    /\ UNCHANGED <<call, step, alg, initial, final, depth_limit, matrix_queue,
                   population, round>>

\* the loop is over: return None
DfsReturn ==
    /\ alg = "DFS" /\ pc = "dfs"
    /\ stack[Len(stack)].at = "loop"
    /\ stack[Len(stack)].i > Len(stack[Len(stack)].children)
    /\ dfs_return_none
    /\ UNCHANGED <<call, step, alg, initial, final, depth_limit, matrix_queue,
                   population, round>>

NextDFS == DfsStart \/ DfsEnter \/ DfsChild \/ DfsReturn

SpecDFS == InitDFS /\ [][NextDFS]_vars

(***************************************************************************)
(* src/algorithm/heuristic/genetic.py.  An Individual is a record of its   *)
(* gene (a sequence of directions) and its adaptivity; an individual is    *)
(* identified by its place in the population.  Random draws are choices;   *)
(* call keeps the draws of the last _select and the population before it.  *)
(***************************************************************************)
POPULATION_SIZE == 2

FINAL_ADAPTIVITY == 123456

CROSSOVER_RANGE == POPULATION_SIZE \div 2

EVOLUTION_ROUND == 2

MaxGeneLength == 2

abs(x) == IF x < 0 THEN -x ELSE x

\* the inner loops as a bug would have it: the distance is not squared
RECURSIVE positional_of_linear(_, _, _, _, _)
positional_of_linear(element, ideal, i, j, c) ==
    IF c >= MATRIX_SIZE * MATRIX_SIZE THEN 0
    ELSE LET m == c \div MATRIX_SIZE
             n == c % MATRIX_SIZE
         IN (IF fetch(ideal, m, n) = element
             THEN -(abs(i - m) + abs(j - n))
             ELSE 0)
            + positional_of_linear(element, ideal, i, j, c + 1)

\* the two inner loops of positional_adaptivity (over m and n) for one
\* element of target at (i, j), from their c-th pass on, c = m * MATRIX_SIZE + n
RECURSIVE positional_of(_, _, _, _, _)
positional_of(element, ideal, i, j, c) ==
    IF c >= MATRIX_SIZE * MATRIX_SIZE THEN 0
    ELSE LET m == c \div MATRIX_SIZE
             n == c % MATRIX_SIZE
         IN (IF fetch(ideal, m, n) = element
             THEN -((abs(i - m) + abs(j - n)) * (abs(i - m) + abs(j - n)))
             ELSE 0)
            + positional_of(element, ideal, i, j, c + 1)

\* the two outer loops (over i and j), from their k-th pass on,
\* k = i * MATRIX_SIZE + j
RECURSIVE positional_from(_, _, _)
positional_from(target, ideal, k) ==
    IF k >= MATRIX_SIZE * MATRIX_SIZE THEN 0
    ELSE positional_of(fetch(target, k \div MATRIX_SIZE, k % MATRIX_SIZE), ideal,
                       k \div MATRIX_SIZE, k % MATRIX_SIZE, 0)
         + positional_from(target, ideal, k + 1)

positional_adaptivity(target, ideal) == positional_from(target, ideal, 0)

\* Individual(length): every sequence of `length` directions may be drawn
Genes(length) == [1 .. length -> Direction]

\* the loop as a bug would have it: last_candidate, not candidate, is
\* compared with final
RECURSIVE adaptivity_from_late_match(_, _, _, _, _, _)
adaptivity_from_late_match(h, individual, candidate, last_candidate, i, ideal) ==
    IF i >= Len(individual.gene)
    THEN [individual EXCEPT
            !.adaptivity = 0 + positional_adaptivity(h[last_candidate], h[ideal])]
    ELSE LET r == play_only(h, candidate, individual.gene[i + 1])
         IN IF r.ret = None
            THEN [individual EXCEPT
                    !.adaptivity = (0 + i) + positional_adaptivity(h[candidate], h[ideal])]
            ELSE IF MatrixEq(r.heap[candidate], r.heap[ideal])
            THEN [individual EXCEPT
                    !.gene = SubSeq(individual.gene, 1, i + 1),
                    !.adaptivity = FINAL_ADAPTIVITY]
            ELSE adaptivity_from_late_match(r.heap, individual, r.ret, candidate,
                                            i + 1, ideal)

\* the loop of calculate_adaptivity from gene index i (counted from 0) on;
\* the matrices it makes are dropped when it returns
RECURSIVE adaptivity_from(_, _, _, _, _, _)
adaptivity_from(h, individual, candidate, last_candidate, i, ideal) ==
    IF i >= Len(individual.gene)
    THEN [individual EXCEPT
            !.adaptivity = 0 + positional_adaptivity(h[last_candidate], h[ideal])]
    ELSE LET r == play_only(h, candidate, individual.gene[i + 1])
         IN IF r.ret = None
            THEN [individual EXCEPT
                    !.adaptivity = (0 + i) + positional_adaptivity(h[candidate], h[ideal])]
            ELSE IF MatrixEq(r.heap[r.ret], r.heap[ideal])
            THEN [individual EXCEPT
                    !.gene = SubSeq(individual.gene, 1, i + 1),
                    !.adaptivity = FINAL_ADAPTIVITY]
            ELSE adaptivity_from(r.heap, individual, r.ret, candidate, i + 1, ideal)

calculate_adaptivity(h, individual, init, ideal) ==
    LET c == clone(h, init)
    IN adaptivity_from(c.heap, individual, c.ret, c.ret, 0, ideal)

\* list.sort(reverse=True, key=adaptivity): stable, greatest first
RECURSIVE insert_sorted(_, _)
insert_sorted(sorted, x) ==
    IF sorted = <<>> THEN <<x>>
    ELSE IF Head(sorted).adaptivity >= x.adaptivity
         THEN <<Head(sorted)>> \o insert_sorted(Tail(sorted), x)
         ELSE <<x>> \o sorted

RECURSIVE sort_reverse(_)
sort_reverse(individuals) ==
    IF individuals = <<>> THEN <<>>
    ELSE insert_sorted(sort_reverse(SubSeq(individuals, 1, Len(individuals) - 1)),
                       individuals[Len(individuals)])

\* the replay of the best gene in _evaluate, from gene index i (from 0) on
RECURSIVE replay(_, _, _, _, _)
replay(h, gene, last_matrix, i, steps) ==
    IF i >= Len(gene)
    THEN [heap |-> h, solution |-> [kind |-> "steps", steps |-> steps]]
    ELSE LET r == play_only(h, last_matrix, gene[i + 1])
         IN IF r.ret = None
            THEN \* SolutionStep(last_matrix, None): None has no fetch
                [heap |-> r.heap, solution |-> [kind |-> "AttributeError", steps |-> <<>>]]
            ELSE LET s == SolutionStep(r.heap, last_matrix, r.ret)
                 IN IF s.raised
                    THEN [heap |-> s.heap,
                          solution |-> [kind |-> "InvalidStepException", steps |-> <<>>]]
                    ELSE replay(s.heap, gene, r.ret, i + 1,
                                Append(steps, [click |-> s.click, target |-> s.target]))

\* for individual in self.population: individual.calculate_adaptivity(...)
RECURSIVE calculate_all(_, _, _, _)
calculate_all(h, individuals, init, ideal) ==
    IF individuals = <<>> THEN <<>>
    ELSE <<calculate_adaptivity(h, Head(individuals), init, ideal)>>
         \o calculate_all(h, Tail(individuals), init, ideal)

\* _evaluate as a bug would have it: the best individual is not looked at
evaluate_never_returns(h, individuals, init, ideal) ==
    [heap |-> h,
     population |-> sort_reverse(calculate_all(h, individuals, init, ideal)),
     solution |-> [kind |-> "None", steps |-> <<>>]]

\* _evaluate: every adaptivity, the sort, and the steps of the best
\* individual when it has the final adaptivity
evaluate(h, individuals, init, ideal) ==
    LET evaluated == calculate_all(h, individuals, init, ideal)
        sorted == sort_reverse(evaluated)
    IN IF sorted[1].adaptivity = FINAL_ADAPTIVITY
       THEN LET c == clone(h, init)
                r == replay(c.heap, sorted[1].gene, c.ret, 0, <<>>)
            IN [heap |-> r.heap, population |-> sorted, solution |-> r.solution]
       ELSE [heap |-> h, population |-> sorted,
             solution |-> [kind |-> "None", steps |-> <<>>]]

\* _select as a bug would have it: > for >=, so that b is kept on a tie
select_strict(individuals, draws) ==
    [k \in 1 .. POPULATION_SIZE |->
        IF individuals[draws[k][1]].adaptivity > individuals[draws[k][2]].adaptivity
        THEN individuals[draws[k][1]]
        ELSE individuals[draws[k][2]]]

\* _select with the pairs drawn: the k-th new individual is a clone of a
\* when a.adaptivity >= b.adaptivity, of b otherwise
select(individuals, draws) ==
    [k \in 1 .. POPULATION_SIZE |->
        IF individuals[draws[k][1]].adaptivity >= individuals[draws[k][2]].adaptivity
        THEN individuals[draws[k][1]]
        ELSE individuals[draws[k][2]]]

\* the swap as a bug would have it: a.gene[i] = b.gene.pop(i)
swap_genes_pop(individuals, a, b, i) ==
    [individuals EXCEPT
        ![a].gene[i + 1] = individuals[b].gene[i + 1],
        ![b].gene = SubSeq(@, 1, i) \o SubSeq(@, i + 2, Len(@))]

\* a.gene[i], b.gene[i] = b.gene[i], a.gene[i] (i counted from 0)
swap_genes(individuals, a, b, i) ==
    [individuals EXCEPT ![a].gene[i + 1] = individuals[b].gene[i + 1],
                        ![b].gene[i + 1] = individuals[a].gene[i + 1]]

RECURSIVE crossover_pair(_, _, _, _, _, _)
crossover_pair(individuals, a, b, swaps, i, limit) ==
    IF i >= limit THEN [population |-> individuals, error |-> "none"]
    ELSE IF i \notin swaps
         THEN crossover_pair(individuals, a, b, swaps, i + 1, limit)
    ELSE IF i >= Len(individuals[a].gene) \/ i >= Len(individuals[b].gene)
         THEN [population |-> individuals, error |-> "IndexError"]
    ELSE crossover_pair(swap_genes(individuals, a, b, i), a, b, swaps, i + 1, limit)

\* _crossover with the draws of each of its CROSSOVER_RANGE rounds: the two
\* individuals a and b (b drawn again while it is a) and the gene positions
\* at which random() < CROSSOVER_POSSIBILITY
RECURSIVE crossover(_, _, _, _)
crossover(individuals, draws, n, limit) ==
    IF n > Len(draws) THEN [population |-> individuals, error |-> "none"]
    ELSE LET r == crossover_pair(individuals, draws[n].a, draws[n].b,
                                 draws[n].swaps, 0, limit)
         IN IF r.error # "none" THEN r
            ELSE crossover(r.population, draws, n + 1, limit)

\* _mutate from the k-th individual on, with the draws of each: whether
\* random() < MUTATE_POSSIBILITY, and pos_a and pos_b.  randrange(limit)
\* raises ValueError when limit is 0, and with limit 1 pos_b is pos_a at
\* every draw: the while loop never ends ("hang").
RECURSIVE mutate(_, _, _, _)
mutate(individuals, draws, k, limit) ==
    IF k > Len(individuals) THEN [population |-> individuals, error |-> "none"]
    ELSE IF ~draws[k].mutate THEN mutate(individuals, draws, k + 1, limit)
    ELSE IF limit <= 0 THEN [population |-> individuals, error |-> "ValueError"]
    ELSE IF limit = 1 THEN [population |-> individuals, error |-> "hang"]
    ELSE IF draws[k].pos_a >= Len(individuals[k].gene)
            \/ draws[k].pos_b >= Len(individuals[k].gene)
         THEN [population |-> individuals, error |-> "IndexError"]
    ELSE mutate([individuals EXCEPT
                    ![k].gene[draws[k].pos_a + 1] = individuals[k].gene[draws[k].pos_b + 1],
                    ![k].gene[draws[k].pos_b + 1] = individuals[k].gene[draws[k].pos_a + 1]],
                draws, k + 1, limit)

GeneLengths == 0 .. MaxGeneLength

\* the genetic solver is given one initial text and the final texts at most
\* MaxGeneLength moves from it
GaRootData == { << <<"1", "2", "3">>, <<"4", "#", "5">>, <<"6", "7", "8">> >> }

GaFinalData(d1) ==
    { TextOf(b) : b \in Within({MatrixInit(d1).mat.arrangement}, MaxGeneLength) }

\* GeneticAlgorithm.__init__: POPULATION_SIZE random individuals
InitGA ==
    /\ \E d1 \in GaRootData : \E d2 \in GaFinalData(d1) : InitSolver(d1, d2)
    /\ alg = "GA" /\ pc = "ga_evaluate"
    /\ depth_limit \in GeneLengths
    /\ population \in [1 .. POPULATION_SIZE ->
                          [gene : Genes(depth_limit), adaptivity : {0}]]
    /\ round = 0
    /\ matrix_queue = <<>> /\ stack = <<>>

GaEvaluate ==
    /\ alg = "GA" /\ pc = "ga_evaluate"
    /\ LET r == evaluate(heap, population, initial, final)
       IN /\ population' = r.population
          /\ heap' = r.heap
          /\ IF r.solution.kind # "None"
             THEN solution' = r.solution /\ pc' = "done"
             ELSE pc' = "ga_select" /\ UNCHANGED solution
    /\ UNCHANGED <<call, step, alg, initial, final, depth_limit, matrix_queue,
                   stack, round>>

GaSelect ==
    /\ alg = "GA" /\ pc = "ga_select"
    /\ \E draws \in [1 .. POPULATION_SIZE ->
                        (1 .. Len(population)) \X (1 .. Len(population))] :
          /\ population' = select(population, draws)
          /\ call' = [op |-> "select", draws |-> draws, pre |-> population]
    /\ pc' = "ga_crossover"
    /\ UNCHANGED <<heap, step, alg, initial, final, depth_limit,
                   matrix_queue, stack, round, solution>>

GaCrossover ==
    /\ alg = "GA" /\ pc = "ga_crossover"
    /\ \E draws \in [1 .. CROSSOVER_RANGE ->
                        { d \in [a : 1 .. Len(population), b : 1 .. Len(population),
                                 swaps : SUBSET (0 .. (depth_limit - 1))] :
                            d.a # d.b }] :
          LET r == crossover(population, draws, 1, depth_limit)
          IN /\ population' = r.population
             /\ IF r.error = "none"
                THEN pc' = "ga_mutate" /\ UNCHANGED solution
                ELSE pc' = "done" /\ solution' = [kind |-> r.error, steps |-> <<>>]
    /\ call' = [op |-> "crossover"]
    /\ UNCHANGED <<heap, step, alg, initial, final, depth_limit,
                   matrix_queue, stack, round>>

\* _mutate, then the end of the round: the next one, or return None after
\* EVOLUTION_ROUND rounds
GaMutate ==
    /\ alg = "GA" /\ pc = "ga_mutate"
    /\ \E draws \in [1 .. Len(population) ->
                        { d \in [mutate : BOOLEAN,
                                 pos_a : 0 .. (IF depth_limit > 1 THEN depth_limit - 1 ELSE 0),
                                 pos_b : 0 .. (IF depth_limit > 1 THEN depth_limit - 1 ELSE 0)] :
                            IF d.mutate /\ depth_limit > 1 THEN d.pos_a # d.pos_b
                            ELSE d.pos_a = 0 /\ d.pos_b = 0 }] :
          LET r == mutate(population, draws, 1, depth_limit)
          IN /\ population' = r.population
             /\ IF r.error = "hang"
                THEN pc' = "ga_mutate_hang" /\ UNCHANGED <<solution, round>>
                ELSE IF r.error # "none"
                THEN /\ pc' = "done" /\ UNCHANGED round
                     /\ solution' = [kind |-> r.error, steps |-> <<>>]
                ELSE IF round + 1 >= EVOLUTION_ROUND
                THEN /\ pc' = "done" /\ round' = round + 1
                     /\ solution' = [kind |-> "None", steps |-> <<>>]
                ELSE /\ pc' = "ga_evaluate" /\ round' = round + 1
                     /\ UNCHANGED solution
    /\ UNCHANGED <<heap, call, step, alg, initial, final, depth_limit,
                   matrix_queue, stack>>

NextGA == GaEvaluate \/ GaSelect \/ GaCrossover \/ GaMutate

SpecGA == InitGA /\ [][NextGA]_vars

(***************************************************************************)
(* SpecAdaptivity: Individual.calculate_adaptivity called on one           *)
(* individual, for the initial and final matrices of a solver and every    *)
(* gene of at most MaxGenes directions.  call keeps the individual as it   *)
(* was before the call.                                                    *)
(***************************************************************************)
MaxGenes == 3

InitAdaptivity ==
    /\ \E d1 \in RootData : \E d2 \in FinalData(d1) : InitSolver(d1, d2)
    /\ alg = "none" /\ pc = "api"
    /\ depth_limit \in 0 .. MaxGenes
    /\ population \in [1 .. 1 -> [gene : Genes(depth_limit), adaptivity : {0}]]
    /\ round = 0
    /\ matrix_queue = <<>> /\ stack = <<>>

CalculateAdaptivity(k) ==
    /\ pc = "api"
    /\ population' = [population EXCEPT
                         ![k] = calculate_adaptivity(heap, population[k], initial, final)]
    /\ call' = [op |-> "calculate_adaptivity", individual |-> k,
                pre |-> population[k]]
    /\ pc' = "observed"
    /\ UNCHANGED <<heap, step, alg, initial, final, depth_limit, matrix_queue,
                   stack, round, solution>>

NextAdaptivity == \E k \in 1 .. Len(population) : CalculateAdaptivity(k)

SpecAdaptivity == InitAdaptivity /\ [][NextAdaptivity]_vars

(***************************************************************************)
(* SpecClone: Matrix.clone called on a matrix built from text, then the    *)
(* original and the clone driven side by side: play_only with the same     *)
(* direction on both (round counts these calls, at most MaxPlays),         *)
(* or one call of exchange or place on one of the two.  call keeps the     *)
(* pair (the original or its latest descendant, likewise the clone) and    *)
(* the heap before the call.                                               *)
(***************************************************************************)
MaxPlays == 2

InitClone ==
    /\ \E d1 \in RootData : heap = <<MatrixInit(d1).mat>>
    /\ pc = "api"
    /\ call = [op |-> "init"]
    /\ step = NoStep
    /\ alg = "none" /\ initial = None /\ final = None /\ depth_limit = 0
    /\ matrix_queue = <<>> /\ stack = <<>>
    /\ population = <<>> /\ round = 0 /\ solution = Unset

Paired == call.op \in {"clone", "play_both"}

CloneCall(self) ==
    /\ pc = "api"
    /\ ~Paired
    /\ LET r == clone(heap, self)
       IN /\ heap' = r.heap
          /\ call' = [op |-> "clone", original |-> self, copy |-> r.ret, pre |-> heap]
    /\ UNCHANGED <<pc, step, alg, initial, final, depth_limit, matrix_queue, stack,
                   population, round, solution>>

PlayBoth(direction) ==
    /\ pc = "api"
    /\ Paired
    /\ call.original # None /\ call.copy # None
    /\ round < MaxPlays
    /\ LET r1 == play_only(heap, call.original, direction)
           r2 == play_only(r1.heap, call.copy, direction)
       IN /\ heap' = r2.heap
          /\ call' = [op |-> "play_both", original |-> r1.ret, copy |-> r2.ret,
                      pre |-> heap]
    /\ round' = round + 1
    /\ UNCHANGED <<pc, step, alg, initial, final, depth_limit, matrix_queue, stack,
                   population, solution>>

\* the other matrix of the pair
Other(self) == IF self = call.original THEN call.copy ELSE call.original

ExchangeCall(self, x1, y1, x2, y2) ==
    /\ pc = "api"
    /\ Paired
    /\ self \in {call.original, call.copy} \ {None}
    /\ heap' = exchange(heap, self, x1, y1, x2, y2)
    /\ call' = [op |-> "exchange", self |-> self, other |-> Other(self), pre |-> heap]
    /\ pc' = "observed"
    /\ UNCHANGED <<step, alg, initial, final, depth_limit, matrix_queue, stack,
                   population, round, solution>>

PlaceCall(self, row, column, number) ==
    /\ pc = "api"
    /\ Paired
    /\ self \in {call.original, call.copy} \ {None}
    /\ heap' = [heap EXCEPT ![self] = place(heap[self], row, column, number)]
    /\ call' = [op |-> "place", self |-> self, other |-> Other(self), pre |-> heap]
    /\ pc' = "observed"
    /\ UNCHANGED <<step, alg, initial, final, depth_limit, matrix_queue, stack,
                   population, round, solution>>

NextClone ==
    \/ \E self \in 1 .. Len(heap) : CloneCall(self)
    \/ \E direction \in Direction : PlayBoth(direction)
    \/ \E self \in 1 .. Len(heap) : \E x1 \in Index, y1 \in Index, x2 \in Index, y2 \in Index :
          ExchangeCall(self, x1, y1, x2, y2)
    \/ \E self \in 1 .. Len(heap) : \E row \in Index, column \in Index :
          \E number \in {SPACE_VALUE, 1} :
             PlaceCall(self, row, column, number)

SpecClone == InitClone /\ [][NextClone]_vars

(***************************************************************************)
(* SpecInput: Matrix(data) on grid text, well-formed or not, and what      *)
(* becomes of the program: util.fatal prints the error and calls           *)
(* sys.exit() with no argument, which ends the process with status 0; an   *)
(* exception nobody catches ends it with a traceback and status 1; a       *)
(* matrix that was built is handed to SolutionAlgorithm.__init__, which    *)
(* clones it.                                                              *)
(***************************************************************************)
fatal == [outcome |-> "fatal", printed |-> "Error", exit_status |-> 0]

uncaught(exception) ==
    [outcome |-> exception, printed |-> "Traceback", exit_status |-> 1]

InputChars == {"#", "0", "1", "2", "3", "4", "5", "6", "7", "8", "9", "a"}

\* data with the character of cell k (numbered 0..8 by rows) replaced
ReplaceChar(data, k, char) ==
    [r \in 1 .. MATRIX_SIZE |->
        [c \in 1 .. MATRIX_SIZE |->
            IF (r - 1) * MATRIX_SIZE + (c - 1) = k THEN char ELSE data[r][c]]]

\* the texts given: a root text, with one character replaced, with a line
\* taken away or added, with a line shortened, lengthened or padded
InputData ==
    UNION { { ReplaceChar(d, k, char) :
                k \in 0 .. (MATRIX_SIZE * MATRIX_SIZE - 1), char \in InputChars }
            \cup { SubSeq(d, 1, n) : n \in 0 .. MATRIX_SIZE }
            \cup { Append(d, d[1]) }
            \cup { [d EXCEPT ![r] = SubSeq(@, 1, MATRIX_SIZE - 1)] : r \in 1 .. MATRIX_SIZE }
            \cup { [d EXCEPT ![r] = Append(@, "9")] : r \in 1 .. MATRIX_SIZE }
            \cup { [d EXCEPT ![r] = <<" ">> \o @ \o <<" ">>] : r \in 1 .. MATRIX_SIZE }
          : d \in RootData }

InitInput ==
    /\ \E data \in InputData : call = [op |-> "input", data |-> data]
    /\ heap = <<>>
    /\ pc = "main"
    /\ step = NoStep
    /\ alg = "none" /\ initial = None /\ final = None /\ depth_limit = 0
    /\ matrix_queue = <<>> /\ stack = <<>>
    /\ population = <<>> /\ round = 0 /\ solution = Unset

\* Matrix(data): the matrix, or the end of the process
MatrixFromText ==
    /\ pc = "main"
    /\ LET st == MatrixInit(call.data)
           end == IF st.status = "fatal" THEN fatal ELSE uncaught(st.status)
       IN IF st.status = "ok"
          THEN /\ heap' = Append(heap, st.mat)
               /\ call' = [op |-> "Matrix", data |-> call.data, outcome |-> "ok"]
               /\ pc' = "constructed"
          ELSE /\ call' = [op |-> "Matrix", data |-> call.data,
                           outcome |-> end.outcome, printed |-> end.printed,
                           exit_status |-> end.exit_status]
               /\ pc' = "exit"
               /\ UNCHANGED heap
    /\ UNCHANGED <<step, alg, initial, final, depth_limit, matrix_queue, stack,
                   population, round, solution>>

\* SolutionAlgorithm.__init__(matrix, matrix)
HandToSolver ==
    /\ pc = "constructed"
    /\ LET c1 == clone(heap, Len(heap))
           c2 == clone(c1.heap, Len(heap))
       IN /\ heap' = c2.heap
          /\ initial' = c1.ret
          /\ final' = c2.ret
    /\ pc' = "solver"
    /\ UNCHANGED <<call, step, alg, depth_limit, matrix_queue, stack,
                   population, round, solution>>

NextInput == MatrixFromText \/ HandToSolver

SpecInput == InitInput /\ [][NextInput]_vars

(***************************************************************************)
(* src/main.py: the program, which runs the solver the user chose.         *)
(***************************************************************************)
\* the two solvers of algorithm.search, which keep every state they derive
InitSearch == InitBFS \/ InitDFS

NextSearch == NextBFS \/ NextDFS

SpecSearch == InitSearch /\ [][NextSearch]_vars

\* a depth-first search long enough for a sequence of moves to come back
\* to an arrangement it has left: DeepLimit moves from the corner root,
\* towards a final arrangement no sequence of moves reaches
DeepLimit == 12

DeepRootData == << <<"#", "1", "2">>, <<"3", "4", "5">>, <<"6", "7", "8">> >>

DeepFinalData == << <<"#", "2", "1">>, <<"3", "4", "5">>, <<"6", "7", "8">> >>

InitDeep ==
    /\ InitSolver(DeepRootData, DeepFinalData)
    /\ alg = "DFS" /\ pc = "start"
    /\ depth_limit = DeepLimit
    /\ matrix_queue = <<>> /\ stack = <<>> /\ population = <<>> /\ round = 0

InitChains == InitSearch \/ InitDeep

\* depth-first searches with room for more than one way to final: from the
\* corner root to every arrangement at most OrderLimit moves away, the
\* depth limit OrderLimit or one less
OrderLimit == 7

OrderFinalData ==
    { TextOf(b) : b \in Within({MatrixInit(DeepRootData).mat.arrangement}, OrderLimit) }

InitOrder ==
    /\ \E d2 \in OrderFinalData : InitSolver(DeepRootData, d2)
    /\ alg = "DFS" /\ pc = "start"
    /\ depth_limit \in {OrderLimit - 1, OrderLimit}
    /\ matrix_queue = <<>> /\ stack = <<>> /\ population = <<>> /\ round = 0

SpecOrder == InitOrder /\ [][NextDFS]_vars

SpecChains == InitChains /\ [][NextSearch]_vars

(***************************************************************************)
(* SolutionAlgorithm.__init__ for a caller whose initial matrix was made   *)
(* by play_only: object 1 is the matrix the caller played from, object 2   *)
(* the initial matrix handed to the solver (its parent is object 1),       *)
(* object 3 the final matrix; the solver keeps a clone of 2 and of 3.      *)
(***************************************************************************)
CallerHeap(d0, direction, d2) ==
    Append(play_only(<<MatrixInit(d0).mat>>, 1, direction).heap, MatrixInit(d2).mat)

InitSolverOf(h0, initial_matrix, final_matrix) ==
    LET c1 == clone(h0, initial_matrix)
        c2 == clone(c1.heap, final_matrix)
    IN /\ heap = c2.heap
       /\ initial = c1.ret
       /\ final = c2.ret
       /\ call = [op |-> "init"]
       /\ step = NoStep
       /\ solution = Unset

CallerInputs(roots, directions, dist) ==
    { t \in roots \X directions \X
            { TextOf(b) : b \in Within({MatrixInit(d0).mat.arrangement : d0 \in roots}, dist + 1) } :
        /\ play_only(<<MatrixInit(t[1]).mat>>, 1, t[2]).ret # None
        /\ MatrixInit(t[3]).mat.arrangement \in
              Within({CallerHeap(t[1], t[2], t[3])[2].arrangement}, dist) }

InitCaller ==
    \/ /\ \E t \in CallerInputs(RootData, Direction, MaxDist) :
             InitSolverOf(CallerHeap(t[1], t[2], t[3]), 2, 3)
       /\ \/ alg = "BFS" /\ depth_limit = 0
          \/ alg = "DFS" /\ depth_limit \in DepthLimits
       /\ pc = "start"
       /\ matrix_queue = <<>> /\ stack = <<>> /\ population = <<>> /\ round = 0
    \/ /\ \E t \in CallerInputs(GaRootData, {"LEFT"}, MaxGeneLength) :
             InitSolverOf(CallerHeap(t[1], t[2], t[3]), 2, 3)
       /\ alg = "GA" /\ pc = "ga_evaluate"
       /\ depth_limit \in GeneLengths
       /\ population \in [1 .. POPULATION_SIZE ->
                             [gene : Genes(depth_limit), adaptivity : {0}]]
       /\ round = 0
       /\ matrix_queue = <<>> /\ stack = <<>>

Init == InitBFS \/ InitDFS \/ InitGA

Next == NextBFS \/ NextDFS \/ NextGA

Spec == Init /\ [][Next]_vars

SpecCaller == InitCaller /\ [][Next]_vars

(***************************************************************************)
(* The arrangements the user gave (objects 1 and 2) and what was returned. *)
(***************************************************************************)
GivenInitial == heap[1].arrangement

GivenFinal == heap[2].arrangement

Returned == pc = "done"

Steps == solution.steps

\* the arrangement after the k-th step of the returned list
GridAfter(k) ==
    IF k = 0 THEN GivenInitial ELSE heap[Steps[k].target].arrangement

(***************************************************************************)
(* C1: when final can be reached from initial, BreadthFirstSearch.solve    *)
(* returns a list of steps whose length is the least number of legal moves *)
(* from initial to final: the empty list when they are equal, one step     *)
(* clicking tile 5 from 123/4#5/678 to 123/45#/678.                        *)
(***************************************************************************)
ExampleInitial == MatrixInit(<< <<"1", "2", "3">>, <<"4", "#", "5">>, <<"6", "7", "8">> >>).mat.arrangement

ExampleFinal == MatrixInit(<< <<"1", "2", "3">>, <<"4", "5", "#">>, <<"6", "7", "8">> >>).mat.arrangement

C1_BfsMinimal ==
    (alg = "BFS" /\ Returned)
    => /\ solution.kind = "steps"
       /\ Len(Steps) = Distance(GivenInitial, GivenFinal, Len(Steps))
       /\ GivenInitial = GivenFinal => Steps = <<>>
       /\ (GivenInitial = ExampleInitial /\ GivenFinal = ExampleFinal)
             => Len(Steps) = 1 /\ Steps[1].click = 5

C1_Witness ==
    /\ alg = "BFS" /\ Returned
    /\ solution.kind = "steps"
    /\ Len(Steps) = 3

(***************************************************************************)
(* C2: a list of steps returned by the breadth-first, depth-first or       *)
(* genetic solver was built without InvalidStepException and is a legal    *)
(* solution: from initial, the arrangement of every step is one legal move *)
(* from the one before, its click is the tile that changed places with the *)
(* blank, the steps run from the root to the goal, and the last            *)
(* arrangement is final.                                                   *)
(***************************************************************************)
C2_LegalSolution ==
    /\ solution.kind # "InvalidStepException"
    /\ solution.kind = "steps" =>
          /\ \A k \in 1 .. Len(Steps) :
                /\ LegalMove(GridAfter(k - 1), GridAfter(k))
                /\ Steps[k].click # SPACE_VALUE
                /\ \E q \in BlankCells(GridAfter(k)) :
                      GridAfter(k - 1)[q[1]][q[2]] = Steps[k].click
          /\ GridAfter(Len(Steps)) = GivenFinal

C2_Witness ==
    /\ alg = "GA" /\ Returned
    /\ solution.kind = "steps"
    /\ Len(Steps) = 2

C2_WitnessBFS ==
    /\ alg = "BFS" /\ Returned /\ solution.kind = "steps" /\ Len(Steps) = 3

C2_WitnessDFS ==
    /\ alg = "DFS" /\ Returned /\ solution.kind = "steps" /\ Len(Steps) = 3

(***************************************************************************)
(* C4: DepthFirstSearch.solve with depth limit 0 returns None when initial *)
(* differs from final, and returns a solution when initial equals final.   *)
(***************************************************************************)
C4_DepthLimitZero ==
    (alg = "DFS" /\ Returned /\ depth_limit = 0)
    => IF GivenInitial = GivenFinal
       THEN solution.kind = "steps"
       ELSE solution.kind = "None"

\* the half of C4 the code keeps: limit 0 and initial # final give None
C4_ZeroDiffers ==
    (alg = "DFS" /\ Returned /\ depth_limit = 0 /\ GivenInitial # GivenFinal)
    => solution.kind = "None"

(***************************************************************************)
(* C5: a list of steps returned by DepthFirstSearch.solve with depth limit *)
(* L >= 0 has at most L steps; when the least number of moves from initial *)
(* to final is more than L, solve returns None.                            *)
(***************************************************************************)
C5_DfsWithinLimit ==
    /\ (alg = "DFS" /\ solution.kind = "steps") => Len(Steps) <= depth_limit
    /\ (alg = "DFS" /\ Returned
          /\ Distance(GivenInitial, GivenFinal, depth_limit) > depth_limit)
       => solution.kind = "None"

C5_Witness ==
    /\ alg = "DFS" /\ Returned
    /\ depth_limit = 2
    /\ Distance(GivenInitial, GivenFinal, 3) = 3
    /\ solution.kind = "None"

C5_WitnessSteps ==
    /\ alg = "DFS" /\ Returned
    /\ solution.kind = "steps"
    /\ Len(Steps) = depth_limit /\ depth_limit = 3

(***************************************************************************)
(* C6: when initial differs from final and the least number of moves d     *)
(* between them is at least 1 and at most the depth limit,                 *)
(* DepthFirstSearch.solve returns a solution.                              *)
(***************************************************************************)
C6_DfsFinds ==
    (alg = "DFS" /\ Returned
       /\ GivenInitial # GivenFinal
       /\ Distance(GivenInitial, GivenFinal, depth_limit) \in 1 .. depth_limit)
    => solution.kind = "steps"

C6_Witness ==
    /\ alg = "DFS" /\ Returned
    /\ depth_limit = 3
    /\ Distance(GivenInitial, GivenFinal, 3) = 3
    /\ solution.kind = "steps"

(***************************************************************************)
(* C11: every state of a run of the breadth-first or depth-first search,   *)
(* the root and every state derived from it by play and play_only, holds   *)
(* each of the tiles 1..8 exactly once and the blank exactly once, and its *)
(* cached space position is the cell that holds the blank.                 *)
(***************************************************************************)
CellsHolding(mat, value) ==
    { cell \in Cells : mat.arrangement[cell[1]][cell[2]] = value }

WellFormed(mat) ==
    /\ \A value \in 1 .. (MATRIX_SIZE * MATRIX_SIZE - 1) :
          Cardinality(CellsHolding(mat, value)) = 1
    /\ Cardinality(CellsHolding(mat, SPACE_VALUE)) = 1
    /\ mat.space_position \in CellsHolding(mat, SPACE_VALUE)

C11_StatesWellFormed ==
    \A i \in 1 .. Len(heap) : WellFormed(heap[i])

\* a state two moves below the root, its blank not where the root's is
C11_Witness ==
    \E i \in 1 .. Len(heap) :
        /\ heap[i].parent # None
        /\ heap[heap[i].parent].parent # None
        /\ heap[i].space_position # heap[heap[heap[i].parent].parent].space_position
        /\ WellFormed(heap[i])

(***************************************************************************)
(* The replay of a gene and the positional score, stated on arrangements   *)
(* without the program's operations.                                       *)
(***************************************************************************)
\* the arrangement after the first k directions of gene, from arr; legal is
\* FALSE once a direction would take the blank out of the grid
RECURSIVE After(_, _, _)
After(arr, gene, k) ==
    IF k = 0 THEN [legal |-> TRUE, arr |-> arr]
    ELSE LET prev == After(arr, gene, k - 1)
             p == CHOOSE cell \in Cells : cell \in BlankCells(prev.arr)
             q == Destination(p, gene[k])
         IN IF prev.legal /\ InGrid(q)
            THEN [legal |-> TRUE, arr |-> Swapped(prev.arr, p, q)]
            ELSE [legal |-> FALSE, arr |-> prev.arr]

\* the numbers k >= 1 of moves after which the replay of gene stands on b
Hits(a, gene, b) ==
    { k \in 1 .. Len(gene) : After(a, gene, k).legal /\ After(a, gene, k).arr = b }

PositionOf(arr, value) == CHOOSE cell \in Cells : arr[cell[1]][cell[2]] = value

SquaredManhattan(p, q) ==
    (abs(p[1] - q[1]) + abs(p[2] - q[2])) * (abs(p[1] - q[1]) + abs(p[2] - q[2]))

\* the sum, over the values of the cells k .. 8 of a (cells numbered by
\* rows), of the squared Manhattan distance between the value's cell in a
\* and its cell in b
RECURSIVE SumOfSquares(_, _, _)
SumOfSquares(a, b, k) ==
    IF k >= MATRIX_SIZE * MATRIX_SIZE THEN 0
    ELSE SquaredManhattan(CellOf(k), PositionOf(b, a[CellOf(k)[1]][CellOf(k)[2]]))
         + SumOfSquares(a, b, k + 1)

Positional(a, b) == -SumOfSquares(a, b, 0)

\* the individual given to the last call of calculate_adaptivity and what
\* the call made of it
GeneBefore == call.pre.gene

Evaluated == population[call.individual]

C12_WitnessOther ==
    /\ call.op = "calculate_adaptivity"
    /\ Len(GeneBefore) = 3
    /\ Hits(GivenInitial, GeneBefore, GivenFinal) = {}
    /\ Evaluated.adaptivity < 0

(***************************************************************************)
(* C16: when every gene is a legal move and no arrangement reached equals  *)
(* final, the adaptivity is the negated sum, over all cells, of the        *)
(* squared Manhattan distance between the value's cell in the state        *)
(* reached after the LAST gene and its cell in final.                      *)
(***************************************************************************)
Exhausted ==
    /\ call.op = "calculate_adaptivity"
    /\ After(GivenInitial, GeneBefore, Len(GeneBefore)).legal
    /\ Hits(GivenInitial, GeneBefore, GivenFinal) = {}

C16_ExhaustedPositional ==
    Exhausted
    => Evaluated.adaptivity =
          Positional(After(GivenInitial, GeneBefore, Len(GeneBefore)).arr, GivenFinal)

\* what the code computes: the score of the state before the last gene
C16_PositionalBeforeLast ==
    (Exhausted /\ Len(GeneBefore) >= 1)
    => Evaluated.adaptivity =
          Positional(After(GivenInitial, GeneBefore, Len(GeneBefore) - 1).arr, GivenFinal)

(***************************************************************************)
(* C17 as claimed: when gene i is the first illegal move and no earlier    *)
(* arrangement equals final, the adaptivity is i, the number of genes      *)
(* played.                                                                 *)
(***************************************************************************)
FirstIllegal(i) ==
    /\ call.op = "calculate_adaptivity"
    /\ i < Len(GeneBefore)
    /\ After(GivenInitial, GeneBefore, i).legal
    /\ ~After(GivenInitial, GeneBefore, i + 1).legal
    /\ Hits(GivenInitial, GeneBefore, GivenFinal) = {}

C17_IllegalGivesCount ==
    \A i \in 0 .. MaxGenes : FirstIllegal(i) => Evaluated.adaptivity = i

(***************************************************************************)
(* C17 as amended: when gene i is the first illegal move and no earlier    *)
(* arrangement equals final, the adaptivity is i plus the (negative)       *)
(* positional score of the state reached by the i genes played, so it is   *)
(* at most i.                                                              *)
(***************************************************************************)
C17_IllegalGivesCountPlusPositional ==
    \A i \in 0 .. MaxGenes :
        FirstIllegal(i)
        => /\ Evaluated.adaptivity =
                 i + Positional(After(GivenInitial, GeneBefore, i).arr, GivenFinal)
           /\ Evaluated.adaptivity <= i

C17_Witness ==
    /\ FirstIllegal(2)
    /\ Evaluated.adaptivity < 0

(***************************************************************************)
(* C13: for every depth limit >= 0 and every outcome of the random draws,  *)
(* GeneticAlgorithm.solve ends without raising: it returns the steps of    *)
(* some Evaluate or, after EVOLUTION_ROUND rounds, None; the draw of two   *)
(* distinct gene positions in Mutate and of two distinct individuals in    *)
(* Crossover always comes to an end.                                       *)
(***************************************************************************)
C13_SolveEndsCleanly ==
    (alg = "GA")
    => /\ pc # "ga_mutate_hang"
       /\ solution.kind \in {"unset", "steps", "None"}
       /\ (Returned /\ solution.kind = "None") => round = EVOLUTION_ROUND

\* what is left of C13 when the depth limit is at least 2
C13_CleanFromTwo ==
    (alg = "GA" /\ depth_limit >= 2)
    => /\ pc # "ga_mutate_hang"
       /\ solution.kind \in {"unset", "steps", "None"}
       /\ (Returned /\ solution.kind = "None") => round = EVOLUTION_ROUND

(***************************************************************************)
(* C14: after clone, the same directions applied to the original and to    *)
(* the clone give equal arrangements (and equal blank positions) at every  *)
(* step, or None for both; the clone is another object than the original,  *)
(* and exchange or place on one of the two leaves the other's arrangement  *)
(* and blank position as they were.                                        *)
(***************************************************************************)
C14_CloneRoundTrip ==
    /\ Paired =>
          /\ (call.original = None) <=> (call.copy = None)
          /\ call.original # None =>
                /\ call.original # call.copy
                /\ heap[call.original].arrangement = heap[call.copy].arrangement
                /\ heap[call.original].space_position = heap[call.copy].space_position
    /\ call.op \in {"exchange", "place"} =>
          /\ call.other # call.self
          /\ heap[call.other].arrangement = call.pre[call.other].arrangement
          /\ heap[call.other].space_position = call.pre[call.other].space_position

\* two directions applied to both, then the clone's descendant changed
C14_Witness ==
    /\ call.op = "exchange"
    /\ round = 2
    /\ heap[call.self].arrangement # call.pre[call.self].arrangement
    /\ heap[call.self].arrangement # heap[call.other].arrangement

C14_WitnessNone ==
    /\ call.op = "play_both"
    /\ call.original = None /\ call.copy = None

(***************************************************************************)
(* C15: Matrix(data) on text that breaks the line count, the line length,  *)
(* or holds a value twice, or holds no blank or two, ends the program in   *)
(* the fatal-error outcome: a message is printed and the process exits     *)
(* with a status that is not 0; no matrix with an invalid grid is handed   *)
(* to a solver.                                                            *)
(***************************************************************************)
\* the characters of all lines of data, the lines stripped
RECURSIVE CharsOf(_)
CharsOf(data) ==
    IF data = <<>> THEN <<>> ELSE strip(Head(data)) \o CharsOf(Tail(data))

CountOf(chars, char) == Cardinality({ k \in 1 .. Len(chars) : chars[k] = char })

ValidText(data) ==
    /\ Len(data) = MATRIX_SIZE
    /\ \A r \in 1 .. Len(data) : Len(strip(data[r])) = MATRIX_SIZE
    /\ CountOf(CharsOf(data), SPACE_SYMBOL) = 1
    /\ \A v \in 1 .. (MATRIX_SIZE * MATRIX_SIZE - 1) :
          CountOf(CharsOf(data), Digits[v + 1]) = 1

C15_InvalidTextFatal ==
    /\ (call.op = "Matrix" /\ ~ValidText(call.data))
       => /\ pc = "exit"
          /\ call.outcome = "fatal"
          /\ call.exit_status # 0
    /\ pc = "solver" => WellFormed(heap[initial]) /\ WellFormed(heap[final])

\* what the code keeps for text of MATRIX_SIZE lines: the process ends, no
\* solver is built
C15_InvalidTextEnds ==
    (call.op = "Matrix" /\ ~ValidText(call.data) /\ Len(call.data) = MATRIX_SIZE)
    => pc = "exit" /\ call.outcome \in {"fatal", "ValueError", "KeyError"}

(***************************************************************************)
(* C18 as claimed: each slot of the population made by _select is a clone  *)
(* of the fitter of the two individuals drawn for it, a first and b        *)
(* second; when their adaptivities are equal b is kept; the new population *)
(* has POPULATION_SIZE members.                                            *)
(***************************************************************************)
Drawn(k, n) == call.pre[call.draws[k][n]]

C18_SelectTiesKeepSecond ==
    (call.op = "select" /\ pc = "ga_crossover")
    => /\ Len(population) = POPULATION_SIZE
       /\ \A k \in 1 .. Len(population) :
             population[k] =
                IF Drawn(k, 1).adaptivity > Drawn(k, 2).adaptivity
                THEN Drawn(k, 1) ELSE Drawn(k, 2)

(***************************************************************************)
(* C18 as amended: each slot is a clone of the fitter of a and b, and when *)
(* their adaptivities are equal the FIRST drawn, a, is kept; the new       *)
(* population has POPULATION_SIZE members.                                 *)
(***************************************************************************)
C18_SelectTiesKeepFirst ==
    (call.op = "select" /\ pc = "ga_crossover")
    => /\ Len(population) = POPULATION_SIZE
       /\ \A k \in 1 .. Len(population) :
             population[k] =
                IF Drawn(k, 2).adaptivity > Drawn(k, 1).adaptivity
                THEN Drawn(k, 2) ELSE Drawn(k, 1)

\* a tie between two individuals of different genes
C18_Witness ==
    /\ call.op = "select" /\ pc = "ga_crossover"
    /\ Drawn(1, 1).adaptivity = Drawn(1, 2).adaptivity
    /\ Drawn(1, 1).gene # Drawn(1, 2).gene
    /\ population[1] = Drawn(1, 1)

\* a slot where the fitter was drawn second
C18_WitnessFitterSecond ==
    /\ call.op = "select" /\ pc = "ga_crossover"
    /\ Drawn(2, 2).adaptivity > Drawn(2, 1).adaptivity
    /\ population[2] = Drawn(2, 2)

(***************************************************************************)
(* C19: in every run of GeneticAlgorithm.solve the phases of a round come  *)
(* in the order Evaluate, Select, Crossover, Mutate; Evaluate runs at most *)
(* EVOLUTION_ROUND times (round, the number of rounds completed, is less   *)
(* than EVOLUTION_ROUND whenever Evaluate is due and grows only at the end *)
(* of Mutate); when Evaluate leaves the best individual at the final       *)
(* adaptivity solve returns at once, with no Select, Crossover or Mutate   *)
(* after it; the population has POPULATION_SIZE members before and after   *)
(* every phase.                                                            *)
(***************************************************************************)
PhaseOrder ==
    { <<"ga_evaluate", "ga_select">>, <<"ga_evaluate", "done">>,
      <<"ga_select", "ga_crossover">>,
      <<"ga_crossover", "ga_mutate">>,
      <<"ga_mutate", "ga_evaluate">>, <<"ga_mutate", "done">>,
      <<"ga_mutate", "ga_mutate_hang">> }

PhaseStep ==
    /\ <<pc, pc'>> \in PhaseOrder
    /\ pc = "ga_evaluate" => round < EVOLUTION_ROUND
    /\ round' = IF pc = "ga_mutate" /\ pc' = "ga_evaluate" THEN round + 1
                ELSE IF pc = "ga_mutate" /\ pc' = "done" /\ solution'.kind = "None"
                     THEN round + 1
                ELSE round
    /\ pc = "ga_evaluate" =>
          IF population'[1].adaptivity = FINAL_ADAPTIVITY
          THEN pc' = "done" /\ solution'.kind = "steps"
          ELSE pc' = "ga_select" /\ solution' = solution
    /\ (pc' = "done" /\ solution'.kind = "steps") => pc = "ga_evaluate"
    /\ Len(population) = POPULATION_SIZE
    /\ Len(population') = POPULATION_SIZE

C19_PhasesInOrder == [][alg = "GA" => PhaseStep]_vars

\* a solution found by the second Evaluate, after one whole round
C19_Witness ==
    /\ alg = "GA" /\ Returned
    /\ round = 1
    /\ solution.kind = "steps"

C19_WitnessNone ==
    /\ alg = "GA" /\ Returned
    /\ round = EVOLUTION_ROUND
    /\ solution.kind = "None"

C20_WitnessSecondRound ==
    /\ alg = "GA" /\ pc = "ga_evaluate" /\ round = 1
    /\ depth_limit = 2
    /\ \A k \in 1 .. Len(population) : Len(population[k].gene) = 2

(***************************************************************************)
(* C21: every state on the frontier of the breadth-first search and every  *)
(* state the depth-first search recurses on (or keeps as a child to        *)
(* recurse on) has a finite parent chain without a cycle, whose            *)
(* arrangements, the root's included, are pairwise different; a successor  *)
(* whose arrangement is that of an ancestor of the expanded state is       *)
(* neither enqueued nor recursed on.                                       *)
(***************************************************************************)
\* the object i and its ancestors, following parent at most n times
RECURSIVE ChainOf(_, _)
ChainOf(i, n) ==
    IF heap[i].parent = None \/ n = 0 THEN <<i>>
    ELSE <<i>> \o ChainOf(heap[i].parent, n - 1)

ChainDistinct(i) ==
    LET chain == ChainOf(i, Len(heap))
    IN /\ heap[chain[Len(chain)]].parent = None
       /\ \A a \in 1 .. Len(chain) : \A b \in 1 .. Len(chain) :
             a # b => heap[chain[a]].arrangement # heap[chain[b]].arrangement

\* the states waiting to be expanded
Pending ==
    { matrix_queue[k] : k \in 1 .. Len(matrix_queue) }
    \cup { stack[k].target : k \in 1 .. Len(stack) }
    \cup UNION { { stack[k].children[c] : c \in 1 .. Len(stack[k].children) } :
                 k \in 1 .. Len(stack) }

C21_ChainsDistinct ==
    /\ \A i \in 1 .. Len(heap) : heap[i].parent < i
    /\ \A i \in Pending : ChainDistinct(i)

\* twelve moves round a block of four cells bring the root's arrangement
\* back: play made that successor and it is not among the children
C21_Witness ==
    /\ alg = "DFS" /\ stack # <<>>
    /\ \E i \in 1 .. Len(heap) :
          /\ Len(ChainOf(i, Len(heap))) = DeepLimit + 1
          /\ heap[i].arrangement = heap[initial].arrangement
          /\ heap[i].parent = stack[Len(stack)].target
          /\ stack[Len(stack)].at = "loop"
          /\ i \notin Pending

\* a frontier of the breadth-first search three moves from the root
C21_WitnessBFS ==
    /\ alg = "BFS"
    /\ \E i \in Pending : Len(ChainOf(i, Len(heap))) = 4

(***************************************************************************)
(* C22: DepthFirstSearch.solve is deterministic and first-found.  play     *)
(* yields the legal successors in the order LEFT, UP, RIGHT, DOWN for      *)
(* every state, and for given initial, final and depth limit the steps     *)
(* returned are those of the first solution met in the pre-order walk of   *)
(* the tree of moves that avoid the arrangements of the ancestors, the     *)
(* children visited in that order and each child compared with final       *)
(* before its subtree is walked; None is returned when the walk meets no   *)
(* solution.                                                               *)
(***************************************************************************)
VisitOrder == <<"LEFT", "UP", "RIGHT", "DOWN">>

NotFound == [found |-> FALSE, path |-> <<>>]

\* the pre-order walk, stated on arrangements: path runs from the root to
\* the state being expanded at depth `depth`, whose directions from the
\* d-th of VisitOrder on are still to be tried
RECURSIVE Walk(_, _, _, _, _)
Walk(path, d, depth, goal, limit) ==
    IF d > Len(VisitOrder) THEN NotFound
    ELSE LET cur == path[Len(path)]
             p == CHOOSE cell \in Cells : cell \in BlankCells(cur)
             q == Destination(p, VisitOrder[d])
             child == Swapped(cur, p, q)
             below == IF depth + 1 > limit THEN NotFound
                      ELSE Walk(Append(path, child), 1, depth + 1, goal, limit)
         IN IF ~InGrid(q) THEN Walk(path, d + 1, depth, goal, limit)
            ELSE IF \E a \in 1 .. Len(path) : path[a] = child
                 THEN Walk(path, d + 1, depth, goal, limit)
            ELSE IF child = goal THEN [found |-> TRUE, path |-> Append(path, child)]
            ELSE IF below.found THEN below
            ELSE Walk(path, d + 1, depth, goal, limit)

FirstFound(root, goal, limit) ==
    IF 1 > limit THEN NotFound ELSE Walk(<<root>>, 1, 1, goal, limit)

RankOf(direction) == CHOOSE d \in 1 .. Len(VisitOrder) : VisitOrder[d] = direction

C22_DfsFirstFound ==
    /\ alg = "DFS" =>
          \A k \in 1 .. Len(stack) :
             \A a \in 1 .. Len(stack[k].children) : \A b \in 1 .. Len(stack[k].children) :
                a < b => RankOf(heap[stack[k].children[a]].last_direction)
                            < RankOf(heap[stack[k].children[b]].last_direction)
    /\ (alg = "DFS" /\ Returned) =>
          LET first == FirstFound(GivenInitial, GivenFinal, depth_limit)
          IN IF first.found
             THEN /\ solution.kind = "steps"
                  /\ Len(Steps) = Len(first.path) - 1
                  /\ \A k \in 1 .. Len(Steps) : GridAfter(k) = first.path[k + 1]
             ELSE solution.kind = "None"

\* seven steps returned for a final arrangement five moves away: the
\* first solution met, not the shortest
C22_Witness ==
    /\ alg = "DFS" /\ Returned
    /\ solution.kind = "steps"
    /\ Len(Steps) = 7
    /\ Distance(GivenInitial, GivenFinal, 7) = 5

(***************************************************************************)
(* C23: a solver works on clones of the matrices it is given.  (a) Its     *)
(* root state has parent None even when the initial matrix of the caller   *)
(* has a parent, so the steps returned by the breadth-first and the        *)
(* depth-first search start at the initial arrangement and count the moves *)
(* of the search only.  (b) No step of solve changes the grid, the blank   *)
(* position, the parent or the last direction of a matrix of the caller.   *)
(***************************************************************************)
PassedInitial == heap[2]

PassedFinal == heap[3]

\* the arrangement before the k-th step of the returned list
StepFrom(k) ==
    IF k = 1 THEN PassedInitial.arrangement ELSE heap[Steps[k - 1].target].arrangement

RootIsFresh ==
    /\ PassedInitial.parent = 1
    /\ initial \notin 1 .. 3 /\ final \notin 1 .. 3
    /\ heap[initial].parent = None /\ heap[initial].last_direction = "None"
    /\ heap[final].parent = None
    /\ heap[initial].arrangement = PassedInitial.arrangement
    /\ heap[final].arrangement = PassedFinal.arrangement

StepsAreTheMoves ==
    (alg \in {"BFS", "DFS"} /\ Returned /\ solution.kind = "steps") =>
        /\ \A k \in 1 .. Len(Steps) :
              heap[Steps[k].target].arrangement \in Successors({StepFrom(k)})
        /\ StepFrom(Len(Steps) + 1) = PassedFinal.arrangement
        /\ alg = "BFS" =>
              Len(Steps) = Distance(PassedInitial.arrangement, PassedFinal.arrangement, MaxDist)
        /\ alg = "DFS" => Len(Steps) <= depth_limit

CallerKept == \A i \in 1 .. 3 : heap'[i] = heap[i]

C23_SolverWorksOnClones == [](RootIsFresh /\ StepsAreTheMoves) /\ [][CallerKept]_vars

\* one step returned that leads back to the arrangement the caller played
\* from: the parent of the caller's matrix is no ancestor of the root
C23_Witness ==
    /\ alg \in {"BFS", "DFS"} /\ Returned
    /\ solution.kind = "steps" /\ Len(Steps) = 1
    /\ PassedInitial.parent = 1
    /\ PassedFinal.arrangement = heap[1].arrangement

\* the genetic solver has run all its rounds beside the caller's matrices
C23_WitnessGA ==
    /\ alg = "GA" /\ Returned
    /\ round = EVOLUTION_ROUND
    /\ PassedInitial.parent = 1

(***************************************************************************)
(* C24: whenever _select, _crossover or _mutate runs, every genome of the  *)
(* population has exactly depth_limit genes: a genome that _evaluate cut   *)
(* short on reaching final makes that _evaluate return the steps, so it    *)
(* never reaches them, and no gene index of crossover or mutation is out   *)
(* of range (solve never ends with IndexError).                            *)
(***************************************************************************)
Varying == pc \in {"ga_select", "ga_crossover", "ga_mutate", "ga_mutate_hang"}

====
